---- MODULE Spec2Model ----
(***************************************************************************)
(* Model of PyAlexa: the request dispatcher AlexaBaseHandler               *)
(* (pyalexaskill/AlexaBaseHandler.py), its intent/slot accessors and       *)
(* response builders, and the deployment-directory step of the packaging   *)
(* tool (bin/create_aws_lambda.py).  Python 2 semantics, as the repository *)
(* is Python 2 code (print statements, __metaclass__, exc.message).        *)
(***************************************************************************)
EXTENDS Integers, Sequences, FiniteSets, TLC

VARIABLES
    app_id,      \* self.app_id, set by __init__
    event,       \* process_request's argument event
    context,     \* process_request's argument context
    pc,          \* position inside process_request
    calls,       \* the handler invocations made so far, in order
    response,    \* the local variable response
    exc,         \* the exception in flight / bound by "except ... as exc"
    result,      \* what process_request returned to its caller
    a_request,   \* accessor call: the intent_request argument
    a_slot,      \* accessor call: the slot_name argument
    a_op,        \* accessor call: which accessor ran
    a_out,       \* accessor call: how it ended
    b_attrs,     \* builder call: session_attributes
    b_speech,    \* builder call: speechlet_response
    b_out,       \* builder call: the envelope returned
    fs,          \* the entries of root_deployments_dir
    runs         \* how many times main ran

vars == <<app_id, event, context, pc, calls, response, exc, result,
          a_request, a_slot, a_op, a_out, b_attrs, b_speech, b_out, fs, runs>>

dispatchVars == <<app_id, event, context, pc, calls, response, exc, result>>
accessorVars == <<a_request, a_slot, a_op, a_out>>
builderVars  == <<b_attrs, b_speech, b_out>>
deployVars   == <<fs, runs>>

(***************************************************************************)
(* Python values.  None and an unbound local are distinguished atoms; a   *)
(* dict is a function from its keys; a missing key is a key outside the    *)
(* function's domain.                                                      *)
(***************************************************************************)
None == "None"
\* None where the other values are dicts: a value of its own, a dict with no key
\* a Python dict of the model has
NoneDict == [py |-> "None"]
Unbound == "<unbound>"
EmptyMap == <<>>

\* a dict that has key k with some value of S, or lacks it
OptField(k, S) == {EmptyMap} \cup {k :> v : v \in S}

\* Python truthiness of a str-or-None value
Truthy(v) == v # None /\ v # ""

\* exceptions: the class decides whether "except Exception" catches it
KeyError(k) == [cls |-> "KeyError", arg |-> k]
TypeError(m) == [cls |-> "TypeError", arg |-> m]
ValueError(m) == [cls |-> "ValueError", arg |-> m]
RuntimeError(m) == [cls |-> "RuntimeError", arg |-> m]
SystemExit(m) == [cls |-> "SystemExit", arg |-> m]
ExceptionClasses == {"KeyError", "ValueError", "RuntimeError", "TypeError"}
IsException(e) == e.cls \in ExceptionClasses

\* the outcome of evaluating an expression or of a call
Returns(v) == [ok |-> TRUE, val |-> v]
Raises(e) == [ok |-> FALSE, exc |-> e]

\* m[k] on a dict, or on None
GetItem(m, k) ==
    IF m = NoneDict THEN Raises(TypeError("'NoneType' object has no attribute '__getitem__'"))
    ELSE IF k \in DOMAIN m THEN Returns(m[k])
    ELSE Raises(KeyError(k))

\* k in m on a dict, or on None
Contains(m, k) ==
    IF m = NoneDict THEN Raises(TypeError("argument of type 'NoneType' is not iterable"))
    ELSE Returns(k \in DOMAIN m)

\* m[k1][k2]...[kn], left to right, stopping at the first KeyError
RECURSIVE GetPath(_, _)
GetPath(m, ks) ==
    IF ks = <<>> THEN Returns(m)
    ELSE LET r == GetItem(m, Head(ks)) IN
         IF r.ok THEN GetPath(r.val, Tail(ks)) ELSE r

(***************************************************************************)
(* The inputs.                                                             *)
(***************************************************************************)
AppIds == {"A", "B"}
ConfiguredAppIds == {None, "", "A"}
Contexts == {"ctx1", "ctx2"}
RequestIds == {"r1"}
RequestTypes == {"LaunchRequest", "IntentRequest", "SessionEndedRequest",
                 "System.ExceptionEncountered"}
BuiltinIntents == {"AMAZON.HelpIntent", "AMAZON.StopIntent", "AMAZON.CancelIntent",
                   "AMAZON.NoIntent", "AMAZON.RepeatIntent", "AMAZON.StartOverIntent",
                   "AMAZON.YesIntent"}
IntentNames == BuiltinIntents \cup {"MyCustomIntent"}

Applications == OptField("applicationId", AppIds)
Sessions == {a @@ b : a \in OptField("new", BOOLEAN),
                      b \in OptField("application", Applications)}
EventIntents == OptField("name", IntentNames)
EventRequests == {a @@ b @@ c : a \in OptField("requestId", RequestIds),
                                b \in OptField("type", RequestTypes),
                                c \in OptField("intent", EventIntents \cup {NoneDict})}
Events == {a @@ b : a \in OptField("session", Sessions),
                    b \in OptField("request", EventRequests)}

\* what a concrete handler may do when invoked: return a response (or None),
\* raise an error derived from Exception, or raise one that is not
Responses == {"resp1", "resp2"}
HandlerOutcomes ==
    {Returns(v) : v \in Responses \cup {None}}
    \cup {Raises(ValueError("Help Intent was not implemented")),
          Raises(RuntimeError("boom")),
          Raises(SystemExit("exit"))}

(***************************************************************************)
(* Accessors used by the dispatch.                                         *)
(***************************************************************************)
_get_intent(intent_request) ==
    IF "intent" \in DOMAIN intent_request THEN intent_request["intent"] ELSE NoneDict

_get_intent_name(intent_request) ==
    LET intent == _get_intent(intent_request) IN
    IF intent # NoneDict /\ "name" \in DOMAIN intent THEN intent["name"] ELSE None

_is_intent(intent_name, intent_request) ==
    _get_intent_name(intent_request) = intent_name

(***************************************************************************)
(* process_request                                                         *)
(***************************************************************************)
RequestHandlers == {"on_launch", "on_intent", "on_help_intent", "on_stop_intent",
                    "on_cancel_intent", "on_no_intent", "on_repeat_intent",
                    "on_start_over_intent", "on_yes_intent", "on_session_ended"}
DedicatedHandlers == RequestHandlers \ {"on_launch", "on_intent", "on_session_ended"}

\* the chain with the AMAZON.YesIntent branch lost
IntentHandler_NoYesBranch(intent_name) ==
    IF intent_name = "AMAZON.HelpIntent" THEN "on_help_intent"
    ELSE IF intent_name = "AMAZON.StopIntent" THEN "on_stop_intent"
    ELSE IF intent_name = "AMAZON.CancelIntent" THEN "on_cancel_intent"
    ELSE IF intent_name = "AMAZON.NoIntent" THEN "on_no_intent"
    ELSE IF intent_name = "AMAZON.RepeatIntent" THEN "on_repeat_intent"
    ELSE IF intent_name = "AMAZON.StartOverIntent" THEN "on_start_over_intent"
    ELSE "on_intent"

\* the if/elif chain on the intent name
IntentHandler(intent_name) ==
    IF intent_name = "AMAZON.HelpIntent" THEN "on_help_intent"
    ELSE IF intent_name = "AMAZON.StopIntent" THEN "on_stop_intent"
    ELSE IF intent_name = "AMAZON.CancelIntent" THEN "on_cancel_intent"
    ELSE IF intent_name = "AMAZON.NoIntent" THEN "on_no_intent"
    ELSE IF intent_name = "AMAZON.RepeatIntent" THEN "on_repeat_intent"
    ELSE IF intent_name = "AMAZON.StartOverIntent" THEN "on_start_over_intent"
    ELSE IF intent_name = "AMAZON.YesIntent" THEN "on_yes_intent"
    ELSE "on_intent"

\* the chain with the SessionEndedRequest branch lost
SelectHandler_NoSessionEnded(request) ==
    IF request["type"] = "LaunchRequest" THEN "on_launch"
    ELSE IF request["type"] = "IntentRequest"
         THEN IntentHandler(_get_intent_name(request))
    ELSE None

\* the chain ending in a catch-all else instead of the SessionEndedRequest test
SelectHandler_ElseSessionEnded(request) ==
    IF request["type"] = "LaunchRequest" THEN "on_launch"
    ELSE IF request["type"] = "IntentRequest"
         THEN IntentHandler(_get_intent_name(request))
    ELSE "on_session_ended"

\* the if/elif chain on request.type; None when no branch is taken
SelectHandler(request) ==
    IF request["type"] = "LaunchRequest" THEN "on_launch"
    ELSE IF request["type"] = "IntentRequest"
         THEN IntentHandler(_get_intent_name(request))
    ELSE IF request["type"] = "SessionEndedRequest" THEN "on_session_ended"
    ELSE None

\* "except ValueError as exc"
Caught_OnlyValueError(e) == e.cls = "ValueError"

\* "except Exception as exc": the classes the handler at line 179 catches
Caught(e) == IsException(e)

\* an exception raised inside the try block
Throw(e) ==
    /\ exc' = e
    /\ pc' = IF Caught(e) THEN "except" ELSE "raised"

\* one handler invocation, as recorded in the log
Call(handler, args, out) == [handler |-> handler, args |-> args, out |-> out]

\* the test with == for !=
OriginMismatch_Inverted(configured, applicationId) == applicationId = configured

\* the origin test of line 148, once the application id was read
OriginMismatch(configured, applicationId) == applicationId # configured

\* lines 148-151
OriginCheck ==
    /\ pc = "origin"
    /\ IF Truthy(app_id)
       THEN LET r == GetPath(event, <<"session", "application", "applicationId">>) IN
            IF ~r.ok THEN Throw(r.exc) /\ UNCHANGED response
            ELSE IF OriginMismatch(app_id, r.val)
                 THEN Throw(ValueError("Invalid Application ID")) /\ UNCHANGED response
                 ELSE pc' = "session" /\ response' = None /\ UNCHANGED exc
       ELSE pc' = "session" /\ response' = None /\ UNCHANGED exc
    /\ UNCHANGED <<app_id, event, context, calls, result>>

\* the argument with the request type copied too
SessionStartedRequest_WithType(request_id) ==
    [requestId |-> request_id, type |-> "SessionStartedRequest"]

\* the argument built for on_session_started at line 153
SessionStartedRequest(request_id) == [requestId |-> request_id]

\* lines 152-153
SessionStarted ==
    /\ pc = "session"
    /\ LET n == GetPath(event, <<"session", "new">>) IN
       IF ~n.ok THEN Throw(n.exc) /\ UNCHANGED calls
       ELSE IF n.val
            THEN LET rid == GetPath(event, <<"request", "requestId">>) IN
                 IF ~rid.ok THEN Throw(rid.exc) /\ UNCHANGED calls
                 ELSE \E out \in HandlerOutcomes :
                        /\ calls' = Append(calls,
                                Call("on_session_started",
                                     <<SessionStartedRequest(rid.val), event["session"]>>,
                                     out))
                        /\ IF out.ok THEN pc' = "dispatch" /\ UNCHANGED exc
                           ELSE Throw(out.exc)
            ELSE pc' = "dispatch" /\ UNCHANGED <<calls, exc>>
    /\ UNCHANGED <<app_id, event, context, response, result>>

\* lines 156-177
Dispatch ==
    /\ pc = "dispatch"
    /\ LET t == GetPath(event, <<"request", "type">>) IN
       IF ~t.ok THEN Throw(t.exc) /\ UNCHANGED <<calls, response>>
       ELSE LET handler == SelectHandler(event["request"]) IN
            IF handler = None
            THEN pc' = "return" /\ UNCHANGED <<calls, response, exc>>
            ELSE \E out \in HandlerOutcomes :
                   /\ calls' = Append(calls,
                           Call(handler, <<event["request"], event["session"]>>, out))
                   /\ IF out.ok
                      THEN pc' = "return" /\ response' = out.val /\ UNCHANGED exc
                      ELSE Throw(out.exc) /\ UNCHANGED response
    /\ UNCHANGED <<app_id, event, context, result>>

\* lines 179-181; logging exc.message changes nothing here (every Python 2
\* exception has the attribute)
ProcessingError ==
    /\ pc = "except"
    /\ \E out \in HandlerOutcomes :
         /\ calls' = Append(calls, Call("on_processing_error", <<event, context, exc>>, out))
         /\ IF out.ok
            THEN pc' = "return" /\ response' = out.val /\ UNCHANGED exc
            ELSE pc' = "raised" /\ exc' = out.exc /\ UNCHANGED response
    /\ UNCHANGED <<app_id, event, context, result>>

\* line 183
Return ==
    /\ pc = "return"
    /\ result' = response
    /\ pc' = "done"
    /\ UNCHANGED <<app_id, event, context, calls, response, exc>>

IdleAccessor == a_request = EmptyMap /\ a_slot = None /\ a_op = "idle" /\ a_out = NoneDict
IdleBuilder == b_attrs = EmptyMap /\ b_speech = EmptyMap /\ b_out = NoneDict
IdleDeploy == fs = {} /\ runs = 0
IdleDispatch ==
    /\ app_id = None /\ event = EmptyMap /\ context = None /\ pc = "idle"
    /\ calls = <<>> /\ response = Unbound /\ exc = None /\ result = Unbound

\* a dispatcher was constructed with some app_id and process_request was called
Init ==
    /\ app_id \in ConfiguredAppIds
    /\ event \in Events
    /\ context \in Contexts
    /\ pc = "origin"
    /\ calls = <<>>
    /\ response = Unbound
    /\ exc = None
    /\ result = Unbound
    /\ IdleAccessor /\ IdleBuilder /\ IdleDeploy

Next ==
    \/ OriginCheck /\ UNCHANGED <<accessorVars, builderVars, deployVars>>
    \/ SessionStarted /\ UNCHANGED <<accessorVars, builderVars, deployVars>>
    \/ Dispatch /\ UNCHANGED <<accessorVars, builderVars, deployVars>>
    \/ ProcessingError /\ UNCHANGED <<accessorVars, builderVars, deployVars>>
    \/ Return /\ UNCHANGED <<accessorVars, builderVars, deployVars>>

Spec == Init /\ [][Next]_vars

(***************************************************************************)
(* Vocabulary of the dispatcher's properties.                              *)
(***************************************************************************)
Has(m, ks) == GetPath(m, ks).ok
HasApplicationId == Has(event, <<"session", "application", "applicationId">>)
HasNew == Has(event, <<"session", "new">>)
HasRequestId == Has(event, <<"request", "requestId">>)
HasType == Has(event, <<"request", "type">>)
IsNew == HasNew /\ event["session"]["new"]
TypeIs(t) == HasType /\ event["request"]["type"] = t

\* the event is let through by the origin check, or no check is made (None or
\* an empty identifier)
PassesOriginTruthy ==
    \/ ~Truthy(app_id)
    \/ HasApplicationId /\ event["session"]["application"]["applicationId"] = app_id
WrongOrigin ==
    HasApplicationId /\ event["session"]["application"]["applicationId"] # app_id

Finished == pc \in {"done", "raised"}
CallsOf(h) == {i \in DOMAIN calls : calls[i].handler = h}
CallsIn(H) == {i \in DOMAIN calls : calls[i].handler \in H}
Invoked(h) == CallsOf(h) # {}
NoHandlerRaised == \A i \in DOMAIN calls : calls[i].out.ok
SessionHookReturned == \A i \in CallsOf("on_session_started") : calls[i].out.ok
\* the session step can complete: the fields it reads are there
SessionFields == HasNew /\ (IsNew => HasRequestId)

\* only on_processing_error was invoked, with the invalid-origin error, and what
\* it returned is what process_request returned
OnlyErrorHookWithInvalidOrigin ==
    /\ \A i \in DOMAIN calls : calls[i].handler = "on_processing_error"
    /\ pc \in {"return", "done", "raised"} =>
         /\ Len(calls) = 1
         /\ calls[1].args = <<event, context, ValueError("Invalid Application ID")>>
         /\ pc = "raised" => ~calls[1].out.ok
         /\ pc = "return" => calls[1].out.ok /\ response = calls[1].out.val
         /\ pc = "done" => calls[1].out.ok /\ result = calls[1].out.val

\* C1 as stated: whenever the configured application identifier is set (not
\* None) and differs from the event's, only on_processing_error is invoked, with
\* the invalid-origin error, and its return value is the result.
C1_AsStated == (app_id # None /\ WrongOrigin) => OnlyErrorHookWithInvalidOrigin

\* C1 amended: the same for every configured identifier that is set to a
\* non-empty string (the code tests the identifier's truth value, so an empty
\* string switches the origin check off like None does).
C1_InvalidOriginOnlyErrorHook ==
    (Truthy(app_id) /\ WrongOrigin) => OnlyErrorHookWithInvalidOrigin

C1_Witness ==
    /\ pc = "done" /\ Truthy(app_id) /\ WrongOrigin /\ IsNew
    /\ TypeIs("LaunchRequest")
    /\ Len(calls) = 1 /\ result = "resp1"

\* on_session_started ran exactly once, first, with {'requestId': ...} and the
\* session
SessionStartedOnceFirst ==
    /\ \A i \in CallsOf("on_session_started") :
           \A j \in CallsIn(RequestHandlers) : i < j
    /\ pc \in {"dispatch", "except", "return", "done", "raised"} =>
         /\ Cardinality(CallsOf("on_session_started")) = 1
         /\ calls[1].handler = "on_session_started"
         /\ DOMAIN calls[1].args[1] = {"requestId"}
         /\ calls[1].args[1]["requestId"] = event["request"]["requestId"]
         /\ calls[1].args[2] = event["session"]

NeverSessionStarted == ~Invoked("on_session_started")

\* C2 as stated: every event with session.new true that passes the origin check
\* gets on_session_started exactly once, before any request-type handler, with
\* the requestId-only request and the session; with session.new false it never
\* runs.
C2_AsStated ==
    /\ (IsNew /\ PassesOriginTruthy) => SessionStartedOnceFirst
    /\ (HasNew /\ ~event["session"]["new"]) => NeverSessionStarted

\* C2 amended: the same for the events that carry request.requestId (without it
\* building the hook's argument raises KeyError and the hook never runs).
C2_SessionStartedOnceFirst ==
    /\ (IsNew /\ PassesOriginTruthy /\ HasRequestId) => SessionStartedOnceFirst
    /\ (HasNew /\ ~event["session"]["new"]) => NeverSessionStarted

C2_Witness ==
    /\ pc = "done" /\ IsNew /\ app_id = "A" /\ TypeIs("IntentRequest")
    /\ Len(calls) = 2
    /\ calls[1].handler = "on_session_started"
    /\ calls[2].handler = "on_yes_intent"

IntentHandlers == DedicatedHandlers \cup {"on_intent"}

\* the handler the spec's table gives an intent name
DedicatedFor(name) ==
    CASE name = "AMAZON.HelpIntent" -> "on_help_intent"
      [] name = "AMAZON.StopIntent" -> "on_stop_intent"
      [] name = "AMAZON.CancelIntent" -> "on_cancel_intent"
      [] name = "AMAZON.NoIntent" -> "on_no_intent"
      [] name = "AMAZON.RepeatIntent" -> "on_repeat_intent"
      [] name = "AMAZON.StartOverIntent" -> "on_start_over_intent"
      [] name = "AMAZON.YesIntent" -> "on_yes_intent"

HasIntentName == Has(event, <<"request", "intent", "name">>)
IsBuiltin == HasIntentName /\ event["request"]["intent"]["name"] \in BuiltinIntents

\* exactly the handler of the table was invoked, once, and no other intent handler
RoutedByIntentName ==
    LET want == IF IsBuiltin THEN DedicatedFor(event["request"]["intent"]["name"])
                ELSE "on_intent" IN
    /\ \A i \in CallsIn(IntentHandlers) : calls[i].handler = want
    /\ pc \in {"except", "return", "done", "raised"} =>
           Cardinality(CallsOf(want)) = 1

\* C3 as stated: every IntentRequest event that passes the origin check is
\* routed to the dedicated handler of its built-in intent name and never to
\* on_intent, and to on_intent and no dedicated handler for any other, absent
\* or unnamed intent.
C3_AsStated ==
    (PassesOriginTruthy /\ HasNew /\ TypeIs("IntentRequest")) => RoutedByIntentName

\* C3 amended: the same for the events whose dispatch is reached: the event
\* carries request.requestId when session.new is true, and on_session_started
\* returns.
C3_RoutedByIntentName ==
    (PassesOriginTruthy /\ SessionFields /\ SessionHookReturned
        /\ TypeIs("IntentRequest")) => RoutedByIntentName

C3_Witness ==
    /\ pc = "done" /\ IsNew /\ TypeIs("IntentRequest")
    /\ HasIntentName /\ event["request"]["intent"]["name"] = "AMAZON.StartOverIntent"
    /\ Invoked("on_start_over_intent") /\ result = "resp2"

\* something raised inside the try block
RaisedInTry ==
    \/ pc = "except"
    \/ Invoked("on_processing_error")
    \/ \E i \in DOMAIN calls : ~calls[i].out.ok

\* a handler other than on_processing_error raised an error that is not an
\* Exception
RaisedNonException ==
    \E i \in DOMAIN calls :
        /\ calls[i].handler # "on_processing_error"
        /\ ~calls[i].out.ok /\ ~IsException(calls[i].out.exc)

\* the error the try block raised, read off the event and the log
IsTheRaisedError(e) ==
    IF \E i \in DOMAIN calls : calls[i].handler # "on_processing_error" /\ ~calls[i].out.ok
    THEN \E i \in DOMAIN calls :
            /\ calls[i].handler # "on_processing_error"
            /\ ~calls[i].out.ok /\ e = calls[i].out.exc
    ELSE IF Truthy(app_id) /\ HasApplicationId /\ WrongOrigin
    THEN e = ValueError("Invalid Application ID")
    ELSE /\ e.cls = "KeyError"
         /\ e.arg \in {"session", "application", "applicationId", "new",
                       "request", "requestId", "type"}
         /\ \/ ~Has(event, <<"session">>) /\ e.arg = "session"
            \/ ~Has(event, <<"request">>) /\ e.arg = "request"
            \/ Has(event, <<"session">>) /\ e.arg \notin DOMAIN event["session"]
                  /\ e.arg \in {"application", "new"}
            \/ Has(event, <<"session", "application">>) /\ e.arg = "applicationId"
                  /\ ~HasApplicationId
            \/ Has(event, <<"request">>) /\ e.arg \notin DOMAIN event["request"]
                  /\ e.arg \in {"requestId", "type"}

\* on_processing_error ran once, last, with (event, context, the raised error);
\* nothing else ran after the failure and what it returned is the result
HandledByErrorHook ==
    /\ Cardinality(CallsOf("on_processing_error")) = 1
    /\ calls[Len(calls)].handler = "on_processing_error"
    /\ calls[Len(calls)].args[1] = event
    /\ calls[Len(calls)].args[2] = context
    /\ IsTheRaisedError(calls[Len(calls)].args[3])
    /\ \A i \in 1..(Len(calls) - 1) : ~calls[i].out.ok => i = Len(calls) - 1
    /\ pc = "done" => calls[Len(calls)].out.ok /\ result = calls[Len(calls)].out.val

\* an error reaches the caller only out of on_processing_error
EscapesOnlyFromErrorHook ==
    pc = "raised" =>
        /\ Invoked("on_processing_error")
        /\ ~calls[Len(calls)].out.ok
        /\ exc = calls[Len(calls)].out.exc

\* C4 as stated: whatever raises inside process_request (the origin check, a
\* field read, on_session_started, the selected handler), on_processing_error
\* runs exactly once with the event, the context and the raised error, no
\* request-type handler runs after the failure, its return value is the result,
\* and an error reaches the caller only when on_processing_error raises.
C4_AsStated ==
    /\ (Finished /\ RaisedInTry) => HandledByErrorHook
    /\ EscapesOnlyFromErrorHook

\* C4 amended: the same for every raised error that is an instance of
\* Exception; an exception outside the Exception hierarchy raised by
\* on_session_started or by the selected handler is not caught: it leaves
\* process_request and on_processing_error is not invoked.
C4_ErrorsGoToErrorHook ==
    /\ (Finished /\ RaisedInTry /\ ~RaisedNonException) => HandledByErrorHook
    /\ ~RaisedNonException => EscapesOnlyFromErrorHook
    /\ RaisedNonException =>
         /\ ~Invoked("on_processing_error")
         /\ pc = "raised" /\ exc = calls[Len(calls)].out.exc

C4_Witness ==
    /\ pc = "done" /\ Len(calls) = 3
    /\ calls[1].handler = "on_session_started" /\ calls[1].out.ok
    /\ calls[2].handler = "on_help_intent"
    /\ calls[2].out = Raises(ValueError("Help Intent was not implemented"))
    /\ calls[3].handler = "on_processing_error"
    /\ calls[3].args = <<event, context, ValueError("Help Intent was not implemented")>>
    /\ result = "resp1"

\* the request-type handler the spec gives the event
ExpectedHandler ==
    IF TypeIs("LaunchRequest") THEN "on_launch"
    ELSE IF TypeIs("SessionEndedRequest") THEN "on_session_ended"
    ELSE IF IsBuiltin THEN DedicatedFor(event["request"]["intent"]["name"])
    ELSE "on_intent"

\* one request-type handler ran, the expected one, on (request, session); the
\* error hook did not run; the handler's return value is the result
ExactlyOneHandler ==
    /\ ~Invoked("on_processing_error")
    /\ pc # "except"
    /\ Cardinality(CallsIn(RequestHandlers)) <= 1
    /\ Finished =>
         /\ pc = "done"
         /\ Cardinality(CallsIn(RequestHandlers)) = 1
         /\ calls[Len(calls)].handler = ExpectedHandler
         /\ calls[Len(calls)].args = <<event["request"], event["session"]>>
         /\ result = calls[Len(calls)].out.val

KnownType ==
    TypeIs("LaunchRequest") \/ TypeIs("IntentRequest") \/ TypeIs("SessionEndedRequest")

\* C5 as stated: every event of a known request type that passes the origin
\* check and whose handlers do not raise gets exactly one request-type handler,
\* called with event.request and event.session, never on_processing_error, and
\* the handler's return value is the result.
C5_AsStated ==
    (PassesOriginTruthy /\ HasNew /\ KnownType /\ NoHandlerRaised) => ExactlyOneHandler

\* C5 amended: the same for the events that carry request.requestId when
\* session.new is true.
C5_ExactlyOneHandler ==
    (PassesOriginTruthy /\ SessionFields /\ KnownType /\ NoHandlerRaised)
        => ExactlyOneHandler

C5_Witness ==
    /\ pc = "done" /\ IsNew /\ app_id = "A" /\ TypeIs("SessionEndedRequest")
    /\ Len(calls) = 2 /\ calls[2].handler = "on_session_ended"
    /\ calls[2].out = Returns("resp2") /\ result = "resp2"

\* no request-type handler and no error hook ran, and None is returned
NothingDispatched ==
    /\ CallsIn(RequestHandlers) = {}
    /\ ~Invoked("on_processing_error")
    /\ pc \notin {"except", "raised"}
    /\ pc = "done" => result = None

\* C10 as stated: an event that passes the origin check and whose request.type
\* is none of the three known types gets no request-type handler and no
\* on_processing_error, and the result is None, whether or not session.new is
\* true, given on_session_started does not raise.
C10_AsStated ==
    (PassesOriginTruthy /\ HasType /\ ~KnownType /\ SessionHookReturned)
        => NothingDispatched

\* C10 amended: the same for the events that carry request.requestId when
\* session.new is true.
C10_UnknownTypeNothingDispatched ==
    (PassesOriginTruthy /\ SessionFields /\ HasType /\ ~KnownType
        /\ SessionHookReturned) => NothingDispatched

C10_Witness ==
    /\ pc = "done" /\ IsNew /\ HasType /\ ~KnownType
    /\ Len(calls) = 1 /\ calls[1].handler = "on_session_started"
    /\ result = None

(***************************************************************************)
(* The slot accessors, called on their own.                                *)
(***************************************************************************)
NumSlotNames == 2
SlotPool == <<"Color", "Size", "City", "Date">>
SlotNames == {SlotPool[i] : i \in 1..NumSlotNames}
SlotValues == {"red", "blue"}
\* a slot entry: its name, and its value unless Alexa resolved none
\* or None in its place
SlotEntries ==
    {[name |-> "slot"], NoneDict} \cup {[name |-> "slot", value |-> v] : v \in SlotValues}
SlotMaps == UNION {[D -> SlotEntries] : D \in SUBSET SlotNames}
AccessorIntents == {a @@ b : a \in OptField("name", {"MyCustomIntent"}),
                             b \in OptField("slots", SlotMaps \cup {NoneDict})}
IntentRequests == {a @@ b : a \in {"type" :> "IntentRequest"},
                            b \in OptField("intent", AccessorIntents \cup {NoneDict})}
AskedSlotNames == SlotNames \cup {"Unknown"}

_slot_exists(slot_name, intent_request) ==
    LET intent == _get_intent(intent_request) IN
    IF intent # NoneDict
    THEN LET slots == GetItem(intent, "slots") IN
         IF slots.ok THEN Contains(slots.val, slot_name) ELSE slots
    ELSE Returns(FALSE)

\* the body without its try/except
_get_slot_value_NoTry(slot_name, intent_request) ==
    LET exists == _slot_exists(slot_name, intent_request) IN
    IF ~exists.ok THEN exists
    ELSE IF exists.val
         THEN GetPath(_get_intent(intent_request), <<"slots", slot_name, "value">>)
         ELSE Returns(None)

_get_slot_value(slot_name, intent_request) ==
    LET exists == _slot_exists(slot_name, intent_request) IN
    IF ~exists.ok
    THEN IF IsException(exists.exc) THEN Returns(None) ELSE exists
    ELSE IF exists.val
         THEN LET v == GetPath(_get_intent(intent_request),
                               <<"slots", slot_name, "value">>) IN
              IF v.ok THEN v
              ELSE IF IsException(v.exc) THEN Returns(None) ELSE v
         ELSE Returns(None)

SlotExists ==
    /\ a_op = "idle"
    /\ a_op' = "_slot_exists"
    /\ a_out' = _slot_exists(a_slot, a_request)
    /\ UNCHANGED <<a_request, a_slot>>

GetSlotValue ==
    /\ a_op = "idle"
    /\ a_op' = "_get_slot_value"
    /\ a_out' = _get_slot_value(a_slot, a_request)
    /\ UNCHANGED <<a_request, a_slot>>

InitAccessor ==
    /\ a_request \in IntentRequests
    /\ a_slot \in AskedSlotNames
    /\ a_op = "idle"
    /\ a_out = NoneDict
    /\ IdleDispatch /\ IdleBuilder /\ IdleDeploy

NextAccessor ==
    \/ SlotExists /\ UNCHANGED <<dispatchVars, builderVars, deployVars>>
    \/ GetSlotValue /\ UNCHANGED <<dispatchVars, builderVars, deployVars>>

SpecAccessor == InitAccessor /\ [][NextAccessor]_vars

HasIntent == Has(a_request, <<"intent">>) /\ a_request["intent"] # NoneDict
HasSlots == HasIntent /\ Has(a_request, <<"intent", "slots">>)
                      /\ a_request["intent"]["slots"] # NoneDict
HasSlot == HasSlots /\ a_slot \in DOMAIN a_request["intent"]["slots"]
HasSlotValue == HasSlot /\ Has(a_request, <<"intent", "slots", a_slot, "value">>)

\* C6: get_slot_value returns the slot's value when the request has an intent
\* whose slots contain the slot name with a value, and otherwise returns None
\* without raising: slot name not in the slots, no intent, an intent with no
\* slots key, a slot entry with no value key.
C6_GetSlotValueNeverRaises ==
    a_op = "_get_slot_value" =>
        /\ a_out.ok
        /\ IF HasSlotValue
           THEN a_out.val = a_request["intent"]["slots"][a_slot]["value"]
           ELSE a_out.val = None

C6_Witness ==
    /\ a_op = "_get_slot_value"
    /\ HasIntent /\ ~Has(a_request, <<"intent", "slots">>)
    /\ a_out = Returns(None)

\* C7: slot_exists returns a boolean and never raises for missing data: true
\* exactly when the request has an intent whose slots mapping contains the slot
\* name, false otherwise, also when there is no intent or no slots key.
C7_SlotExistsNeverRaises ==
    a_op = "_slot_exists" =>
        /\ a_out.ok
        /\ a_out.val \in BOOLEAN
        /\ a_out.val = HasSlot

(***************************************************************************)
(* The response builders.                                                  *)
(***************************************************************************)
_build_speechlet_response(card_title, card_output, speech_output, reprompt_text, should_end_session) ==
    [outputSpeech |-> [type |-> "PlainText", text |-> speech_output],
     card |-> [type |-> "Simple", title |-> card_title, content |-> card_output],
     reprompt |-> [outputSpeech |-> [type |-> "PlainText", text |-> reprompt_text]],
     shouldEndSession |-> should_end_session]

\* the envelope with its two payload fields exchanged
_build_response_Swapped(session_attributes, speechlet_response) ==
    [version |-> "1.0",
     sessionAttributes |-> speechlet_response,
     response |-> session_attributes]

_build_response(session_attributes, speechlet_response) ==
    [version |-> "1.0",
     sessionAttributes |-> session_attributes,
     response |-> speechlet_response]

AttributeKeys == {"lastIntent", "count"}
AttributeValues == {"v1", "v2"}
SessionAttributeMaps == UNION {[D -> AttributeValues] : D \in SUBSET AttributeKeys}
Texts == {"Hello", "Bye"}
SpeechletResponses ==
    {_build_speechlet_response(t, c, s, r, e) :
        t \in {"Title"}, c \in Texts, s \in Texts, r \in Texts \cup {None},
        e \in BOOLEAN}
    \cup {EmptyMap}

BuildResponse ==
    /\ b_out = NoneDict
    /\ b_out' = _build_response(b_attrs, b_speech)
    /\ UNCHANGED <<b_attrs, b_speech>>

InitBuilder ==
    /\ b_attrs \in SessionAttributeMaps
    /\ b_speech \in SpeechletResponses
    /\ b_out = NoneDict
    /\ IdleDispatch /\ IdleAccessor /\ IdleDeploy

NextBuilder == BuildResponse /\ UNCHANGED <<dispatchVars, accessorVars, deployVars>>

SpecBuilder == InitBuilder /\ [][NextBuilder]_vars

\* C8: build_response returns a mapping with exactly the keys version,
\* sessionAttributes and response; version is "1.0" and the other two are the
\* given session attributes and the given speechlet response, unchanged.
C8_BuildResponseRoundTrip ==
    b_out # NoneDict =>
        /\ DOMAIN b_out = {"version", "sessionAttributes", "response"}
        /\ b_out["version"] = "1.0"
        /\ b_out["sessionAttributes"] = b_attrs
        /\ b_out["response"] = b_speech

C8_Witness ==
    /\ b_out # NoneDict
    /\ DOMAIN b_attrs = AttributeKeys
    /\ b_speech # EmptyMap /\ b_speech["shouldEndSession"]
    /\ b_out["response"]["card"]["content"] = "Bye"
    /\ b_out["sessionAttributes"]["count"] = "v2"

(***************************************************************************)
(* The packaging tool: the deployment directories of main.                 *)
(* A file name is its sequence of characters; an entry of                  *)
(* root_deployments_dir is a name and whether it is a directory.           *)
(***************************************************************************)
MaxRuns == 11

DigitChars == <<"0", "1", "2", "3", "4", "5", "6", "7", "8", "9">>
IsDigit(c) == \E d \in DOMAIN DigitChars : DigitChars[d] = c
DigitValue(c) == (CHOOSE d \in DOMAIN DigitChars : DigitChars[d] = c) - 1

\* "{0}".format(n) for n >= 0: the decimal digits of n
RECURSIVE Format(_)
Format(n) ==
    IF n < 10 THEN <<DigitChars[n + 1]>>
    ELSE Format(n \div 10) \o <<DigitChars[(n % 10) + 1]>>

\* int(s) for a string of decimal digits
RECURSIVE int(_)
int(s) ==
    IF Len(s) = 1 THEN DigitValue(s[1])
    ELSE 10 * int(SubSeq(s, 1, Len(s) - 1)) + DigitValue(s[Len(s)])
IsNumeral(s) == Len(s) > 0 /\ \A i \in DOMAIN s : IsDigit(s[i])

\* s.split(sep) for a one-character sep
RECURSIVE split(_, _)
split(s, sep) ==
    IF \A i \in DOMAIN s : s[i] # sep THEN <<s>>
    ELSE LET i == CHOOSE k \in DOMAIN s :
                     s[k] = sep /\ \A j \in 1..(k - 1) : s[j] # sep IN
         <<SubSeq(s, 1, i - 1)>> \o split(SubSeq(s, i + 1, Len(s)), sep)

DeploymentPrefix == <<"d", "e", "p", "l", "o", "y", "m", "e", "n", "t", "_">>
ZipSuffix == <<".", "z", "i", "p">>

_get_immediate_subdirectories(entries) == {e.name : e \in {x \in entries : x.isdir}}

\* s < t as Python orders two strings of digits
RECURSIVE StrLess(_, _)
StrLess(s, t) ==
    IF Len(t) = 0 THEN FALSE
    ELSE IF Len(s) = 0 THEN TRUE
    ELSE IF s[1] # t[1] THEN DigitValue(s[1]) < DigitValue(t[1])
    ELSE StrLess(Tail(s), Tail(t))

\* the loop comparing the suffixes as strings, converting the greatest after
MaxDeploymentNumber_StringOrder(all_deployment_directories) ==
    LET suffixes == {split(d, "_")[2] :
                        d \in {x \in all_deployment_directories :
                                   Len(split(x, "_")) = 2}} IN
    IF suffixes = {} THEN -1
    ELSE int(CHOOSE m \in suffixes : \A n \in suffixes : ~StrLess(m, n))

\* lines 56-61: the greatest integer suffix of the two-element names, or -1
MaxDeploymentNumber(all_deployment_directories) ==
    LET numbers == {int(split(d, "_")[2]) :
                        d \in {x \in all_deployment_directories :
                                   Len(split(x, "_")) = 2}} IN
    IF numbers = {} THEN -1
    ELSE CHOOSE m \in numbers : \A n \in numbers : n <= m

\* lines 63-66
DeploymentName(entries) ==
    LET max_deployment_number ==
            MaxDeploymentNumber(_get_immediate_subdirectories(entries))
        n == IF max_deployment_number = -1 THEN 0 ELSE max_deployment_number IN
    DeploymentPrefix \o Format(n + 1)

\* lines 69-70: os.mkdir unless the path exists
Mkdir(entries, name) ==
    IF \E e \in entries : e.name = name THEN entries
    ELSE entries \cup {[name |-> name, isdir |-> TRUE]}

\* zipdir writes the archive next to the deployment directories
WriteZip(entries, name) == entries \cup {[name |-> name \o ZipSuffix, isdir |-> FALSE]}

\* main, lines 193-199: the directory is made first; copying the include files
\* or reading requirements.txt may fail and end the run before the archive is
\* written
Main ==
    /\ runs < MaxRuns
    /\ runs' = runs + 1
    /\ IF \E d \in _get_immediate_subdirectories(fs) :
             Len(split(d, "_")) = 2 /\ ~IsNumeral(split(d, "_")[2])
       THEN fs' = fs    \* int() raises ValueError: nothing is created
       ELSE LET deployment_name == DeploymentName(fs) IN
            \E completes \in BOOLEAN :
                fs' = IF completes
                      THEN WriteZip(Mkdir(fs, deployment_name), deployment_name)
                      ELSE Mkdir(fs, deployment_name)

InitDeploy ==
    /\ fs = {}
    /\ runs = 0
    /\ IdleDispatch /\ IdleAccessor /\ IdleBuilder

NextDeploy == Main /\ UNCHANGED <<dispatchVars, accessorVars, builderVars>>

SpecDeploy == InitDeploy /\ [][NextDeploy]_vars

DeploymentDirs == {e.name : e \in {x \in fs : x.isdir}}

\* C9: from an empty deployments directory the k-th run creates deployment_k:
\* after n runs the deployment directories are exactly deployment_1 ..
\* deployment_n, each run adding the directory numbered one more than the
\* highest existing suffix and reusing none.
C9_DeploymentsNumberedInOrder ==
    /\ DeploymentDirs = {DeploymentPrefix \o Format(k) : k \in 1..runs}
    /\ Cardinality(DeploymentDirs) = runs
    /\ runs >= 1 => <<"d", "e", "p", "l", "o", "y", "m", "e", "n", "t", "_", "1">>
                        \in DeploymentDirs
    /\ runs >= 10 =>
         <<"d", "e", "p", "l", "o", "y", "m", "e", "n", "t", "_", "1", "0">>
             \in DeploymentDirs

C9_Witness ==
    /\ runs = 11
    /\ <<"d", "e", "p", "l", "o", "y", "m", "e", "n", "t", "_", "1", "1">>
           \in DeploymentDirs
    /\ \E e \in fs : ~e.isdir

====
